---- MODULE Spec2Model ----
(***************************************************************************)
(* State-machine model of rpc/jsonrpc/server/ws_handler.go: one websocket  *)
(* connection (wsConnection) with its inbound loop (readRoutine), its      *)
(* outbound loop (writeRoutine), the bounded write channel between them,    *)
(* the acceptor (WebsocketManager.WebsocketHandler) that starts and stops   *)
(* the connection, and an external goroutine that uses the exported         *)
(* WSRPCConnection methods (WriteRPCResponse, TryWriteRPCResponse,          *)
(* Context, Stop).                                                          *)
(***************************************************************************)
EXTENDS Integers, Sequences, FiniteSets, TLC

(***************************************************************************)
(* Bounds of the model.                                                     *)
(***************************************************************************)
\* number of inputs of a run: the data frames the peer sends plus the calls
\* the external goroutine makes
MaxInputs == 2
\* wsc.writeChanCapacity as configured with the WriteChanCapacity option
WriteChanCap == 2
\* the smallest wsc.writeChanCapacity a connection is configured with
MinChanCap == 1
\* wsc.readWait as configured with the ReadWait option, in clock ticks
ReadWait == 1

(***************************************************************************)
(* JSON-RPC ids and error codes (rpc/jsonrpc/types).                        *)
(***************************************************************************)
\* a request without an "id" member decodes to request.ID == nil
NilID == 0
\* rpctypes.JSONRPCIntID(-1), the id of the recovered-panic response
PanicID == -1
\* the id the peer puts in its requests
ReqId == 7
ReqIds == {ReqId}

CodeSuccess == 0
CodeParseError == -32700
CodeInvalidRequest == -32600
CodeMethodNotFound == -32601
CodeInvalidParams == -32602
CodeInternalError == -32603
\* the code of an *rpctypes.RPCError a handler returns itself
CodeCustom == 1

\* a response: seq is the number of the frame it answers (0: pushed by the
\* external goroutine), a history tag that the program does not hold
Resp(seq, id, code) == [seq |-> seq, id |-> id, code |-> code]

RPCParseError(seq) == Resp(seq, NilID, CodeParseError)
RPCMethodNotFoundError(seq, id) == Resp(seq, id, CodeMethodNotFound)
RPCInvalidParamsError(seq, id) == Resp(seq, id, CodeInvalidParams)
RPCInvalidRequestError(seq, id) == Resp(seq, id, CodeInvalidRequest)
RPCInternalError(seq, id) == Resp(seq, id, CodeInternalError)
NewRPCSuccessResponse(seq, id) == Resp(seq, id, CodeSuccess)
NewRPCErrorResponse(seq, id, code) == Resp(seq, id, code)

NoResp == Resp(0, NilID, CodeSuccess)

\* the k-th response the external goroutine pushes (an event)
EventResp(k) == Resp(0, k, CodeSuccess)

(***************************************************************************)
(* Inbound data frames and handler outcomes.                                *)
(***************************************************************************)
\* kind: "malformed" does not decode as an RPCRequest
\* method: "known" is in funcMap, "unknown" is not
\* params: "none" is len(request.Params) == 0, "good" binds, "bad" does not
Frames ==
    {[kind |-> "malformed", id |-> NilID, method |-> "unknown", params |-> "none"]}
    \cup [kind : {"request"}, id : ReqIds \cup {NilID},
          method : {"known", "unknown"}, params : {"none", "good", "bad"}]

\* what rpcFunc.f.Call(args) does: the handler returns (result, nil), returns
\* an *rpctypes.RPCError, returns one of the coretypes sentinels itself,
\* returns an error wrapping a sentinel, returns another error, or panics
Outcomes == {"ok", "rpcerr", "sentinel", "wrapped", "other", "panic"}

NoFrame == [kind |-> "none", id |-> NilID, method |-> "unknown", params |-> "none"]

\* the connection is configured with the OnDisconnect option
HasOnDisconnect == TRUE

VARIABLES
    writeChanCapacity,\* wsc.writeChanCapacity
    state,            \* RunState: "NotStarted", "Running", "Stopped"
    chanMade,         \* wsc.writeChan != nil
    writeChan,        \* the responses buffered in wsc.writeChan
    readRoutineQuit,  \* wsc.readRoutineQuit is closed
    pongs,            \* number of messages in writeRoutine's pongs channel
    disconnects,      \* number of calls of wsc.onDisconnect
    wscCtx,           \* wsc.ctx: "nil", "live", "cancelled"
    ctxDone,          \* the context given to Start is cancelled
    readers,          \* number of goroutines inside the loop of readRoutine
    writers,          \* number of goroutines inside the loop of writeRoutine
    rdPc,             \* position of the readRoutine goroutine
    cur,              \* the frame readRoutine is answering
    pending,          \* the response readRoutine is sending
    invoked,          \* the handler was invoked for the frame being answered
    outcome,          \* what the invoked handler did ("none": not invoked)
    nread,            \* number of data frames read so far
    notifs,           \* the frame numbers that were notifications
    rdLeft,           \* ticks left until the read deadline
    readErr,          \* the error NextReader returned: "none", "error"
                      \* (the peer closed or the socket failed), "timeout"
    wrPc,             \* position of writeRoutine
    wire,             \* the frames written to the socket, in order: the
                      \* frame number of a response, 0 for an event,
                      \* PingFrame, PongFrame
    accPc,            \* position of WebsocketHandler
    extPc,            \* the external goroutine: "idle", in the select of
                      \* "try" or "write" ("writenil": of "write", entered
                      \* when wsc.writeChan was nil), or returned ("ret")
    extCtx,           \* the context it passed to the call
    extRet,           \* what the call returned
    nevents           \* number of calls it has made

vars == <<writeChanCapacity, state, chanMade, writeChan, readRoutineQuit, pongs, disconnects,
          wscCtx, ctxDone, readers, writers, rdPc, cur, pending, invoked, outcome, nread, notifs, rdLeft,
          readErr, wrPc, wire, accPc, extPc, extCtx, extRet, nevents>>


(***************************************************************************)
(* client.RunState, the lifecycle guard embedded in wsConnection.           *)
(***************************************************************************)
\* RunState.Start returns nil: only from the not-started state
RunStateStartOK == state = "NotStarted"
\* RunState.Stop returns nil: only from the running state
RunStateStopOK == state = "Running"

(***************************************************************************)
(* Contexts.  "background" is context.Background(), "caller" the context    *)
(* given to Start, "conn" the context wsc.Context() returns.                *)
(***************************************************************************)
Contexts == {"background", "caller", "conn"}

\* the contexts the external goroutine passes
ExtContexts == {"caller", "conn"}

CtxIsDone(c) ==
    CASE c = "background" -> FALSE
      [] c = "caller" -> ctxDone
      [] c = "conn" -> wscCtx = "cancelled"

\* wsc.Context(): creates wsc.ctx on the first call
ContextValue == IF wscCtx = "nil" THEN "live" ELSE wscCtx

(***************************************************************************)
(* wsc.Stop()                                                               *)
(***************************************************************************)
\* Stop that goes on when RunState.Stop returns an error
StopIgnoresRunState ==
    /\ state' = "Stopped"
    /\ disconnects' = IF HasOnDisconnect THEN disconnects + 1 ELSE disconnects
    /\ wscCtx' = IF wscCtx = "nil" THEN "nil" ELSE "cancelled"

Stop ==
    IF RunStateStopOK
    THEN /\ state' = "Stopped"
         /\ disconnects' = IF HasOnDisconnect THEN disconnects + 1 ELSE disconnects
         /\ wscCtx' = IF wscCtx = "nil" THEN "nil" ELSE "cancelled"
    ELSE UNCHANGED <<state, disconnects, wscCtx>>

(***************************************************************************)
(* The two enqueue operations.  Each is one select statement; the value is  *)
(* the set of the outcomes the select can have in the current state: which  *)
(* case ran, what the call returns and what the channel holds afterwards.   *)
(* An empty set means that the caller stays blocked.  A send on the nil     *)
(* channel (before Start) is never ready.  Among several ready cases a      *)
(* select takes any one.                                                    *)
(***************************************************************************)
CanSend == chanMade /\ Len(writeChan) < writeChanCapacity

\* WriteRPCResponse with the response put at the head of the channel
WriteRPCResponsePrepend(c, resp) ==
    (IF CtxIsDone(c)
     THEN {[case |-> "done", ret |-> "cancelled", ch |-> writeChan]} ELSE {})
    \cup
    (IF CanSend
     THEN {[case |-> "send", ret |-> "ok", ch |-> <<resp>> \o writeChan]} ELSE {})

\* WriteRPCResponse with a default case: it gives up when no case is ready
WriteRPCResponseNoBlock(c, resp) ==
    LET ready ==
          (IF CtxIsDone(c)
           THEN {[case |-> "done", ret |-> "cancelled", ch |-> writeChan]} ELSE {})
          \cup
          (IF CanSend
           THEN {[case |-> "send", ret |-> "ok", ch |-> Append(writeChan, resp)]}
           ELSE {})
    IN IF ready = {}
       THEN {[case |-> "default", ret |-> "cancelled", ch |-> writeChan]}
       ELSE ready

\* line 262: the select of the blocking enqueue
WriteRPCResponse(c, resp) ==
    (IF CtxIsDone(c)
     THEN {[case |-> "done", ret |-> "cancelled", ch |-> writeChan]} ELSE {})
    \cup
    (IF CanSend
     THEN {[case |-> "send", ret |-> "ok", ch |-> Append(writeChan, resp)]} ELSE {})

\* TryWriteRPCResponse without the default case
TryWriteRPCResponseNoDefault(c, resp) ==
    (IF CtxIsDone(c)
     THEN {[case |-> "done", ret |-> "false", ch |-> writeChan]} ELSE {})
    \cup
    (IF CanSend
     THEN {[case |-> "send", ret |-> "true", ch |-> Append(writeChan, resp)]} ELSE {})

\* line 274: the select of the non-blocking enqueue
TryWriteRPCResponse(c, resp) ==
    LET ready ==
          (IF CtxIsDone(c)
           THEN {[case |-> "done", ret |-> "false", ch |-> writeChan]} ELSE {})
          \cup
          (IF CanSend
           THEN {[case |-> "send", ret |-> "true", ch |-> Append(writeChan, resp)]}
           ELSE {})
    IN IF ready = {}
       THEN {[case |-> "default", ret |-> "false", ch |-> writeChan]}
       ELSE ready

(***************************************************************************)
(* readRoutine: from a decoded frame to the response.                       *)
(***************************************************************************)
\* errors.Unwrap of the error the handler returned
Unwrap(o) == IF o = "wrapped" THEN "sentinel" ELSE "nil"

\* the switch over the handler's error
HandlerResponse(n, id, o) ==
    CASE o = "ok" -> NewRPCSuccessResponse(n, id)
      [] o = "rpcerr" -> NewRPCErrorResponse(n, id, CodeCustom)
      [] OTHER -> IF Unwrap(o) = "sentinel"
                  THEN RPCInvalidRequestError(n, id)
                  ELSE RPCInternalError(n, id)

\* Dispatch without the check of request.ID == nil
DispatchAnswersNotifications(f, n, o) ==
    IF f.kind = "malformed"
    THEN [act |-> "send", resp |-> RPCParseError(n), invoked |-> FALSE]
    ELSE IF f.method = "unknown"
    THEN [act |-> "send", resp |-> RPCMethodNotFoundError(n, f.id), invoked |-> FALSE]
    ELSE IF f.params = "bad"
    THEN [act |-> "send", resp |-> RPCInvalidParamsError(n, f.id), invoked |-> FALSE]
    ELSE IF o = "panic"
    THEN [act |-> "panic", resp |-> RPCInternalError(n, PanicID), invoked |-> TRUE]
    ELSE [act |-> "send", resp |-> HandlerResponse(n, f.id, o), invoked |-> TRUE]

\* Dispatch that goes on to the handler after the InvalidParams response
DispatchInvokesOnBadParams(f, n, o) ==
    IF f.kind = "malformed"
    THEN [act |-> "send", resp |-> RPCParseError(n), invoked |-> FALSE]
    ELSE IF f.id = NilID
    THEN [act |-> "skip", resp |-> NoResp, invoked |-> FALSE]
    ELSE IF f.method = "unknown"
    THEN [act |-> "send", resp |-> RPCMethodNotFoundError(n, f.id), invoked |-> FALSE]
    ELSE IF o = "panic"
    THEN [act |-> "panic", resp |-> RPCInternalError(n, PanicID), invoked |-> TRUE]
    ELSE [act |-> "send", resp |-> HandlerResponse(n, f.id, o), invoked |-> TRUE]

\* Dispatch that answers an unknown method without the request's id
DispatchMethodNotFoundNoID(f, n, o) ==
    IF f.kind = "malformed"
    THEN [act |-> "send", resp |-> RPCParseError(n), invoked |-> FALSE]
    ELSE IF f.id = NilID
    THEN [act |-> "skip", resp |-> NoResp, invoked |-> FALSE]
    ELSE IF f.method = "unknown"
    THEN [act |-> "send", resp |-> RPCMethodNotFoundError(n, NilID), invoked |-> FALSE]
    ELSE IF f.params = "bad"
    THEN [act |-> "send", resp |-> RPCInvalidParamsError(n, f.id), invoked |-> FALSE]
    ELSE IF o = "panic"
    THEN [act |-> "panic", resp |-> RPCInternalError(n, PanicID), invoked |-> TRUE]
    ELSE [act |-> "send", resp |-> HandlerResponse(n, f.id, o), invoked |-> TRUE]

\* one iteration of the loop body after NextReader returned frame f as the
\* n-th frame, the handler behaving as o if it is invoked:
\*   act "send": a response is sent and the loop continues
\*   act "skip": the loop continues without a response
\*   act "panic": the deferred function sends the response
Dispatch(f, n, o) ==
    IF f.kind = "malformed"
    THEN [act |-> "send", resp |-> RPCParseError(n), invoked |-> FALSE]
    ELSE IF f.id = NilID
    THEN [act |-> "skip", resp |-> NoResp, invoked |-> FALSE]
    ELSE IF f.method = "unknown"
    THEN [act |-> "send", resp |-> RPCMethodNotFoundError(n, f.id), invoked |-> FALSE]
    ELSE IF f.params = "bad"
    THEN [act |-> "send", resp |-> RPCInvalidParamsError(n, f.id), invoked |-> FALSE]
    ELSE IF o = "panic"
    THEN [act |-> "panic", resp |-> RPCInternalError(n, PanicID), invoked |-> TRUE]
    ELSE [act |-> "send", resp |-> HandlerResponse(n, f.id, o), invoked |-> TRUE]

(***************************************************************************)
(* The log of the wire.                                                     *)
(***************************************************************************)
PingFrame == -1
PongFrame == -2

IsKeepAlive(m) == m < 0

\* the log of the wire keeps the first keep-alive frame that follows a
\* response, and no other keep-alive frame
LogKeepAlive(w, m) ==
    IF w # <<>> /\ (\A i \in 1..Len(w) : ~IsKeepAlive(w[i]))
    THEN Append(w, m) ELSE w

IsAnswer(m) == m > 0
\* the frame numbers of the responses of readRoutine on the wire, in order
Answers(w) == SelectSeq(w, IsAnswer)

(***************************************************************************)
(* Initial state: the connection as newWSConnection returns it.             *)
(***************************************************************************)
\* capacity of the pongs channel of writeRoutine
PongsCap == 1

InitWith(cap) ==
    /\ writeChanCapacity = cap
    /\ state = "NotStarted"
    /\ chanMade = FALSE
    /\ writeChan = <<>>
    /\ readRoutineQuit = FALSE
    /\ pongs = 0
    /\ disconnects = 0
    /\ wscCtx = "nil"
    /\ ctxDone = FALSE
    /\ readers = 0
    /\ writers = 0
    /\ rdPc = "none"
    /\ cur = NoFrame
    /\ pending = NoResp
    /\ invoked = FALSE
    /\ outcome = "none"
    /\ nread = 0
    /\ notifs = {}
    /\ rdLeft = 0
    /\ readErr = "none"
    /\ wrPc = "none"
    /\ wire = <<>>
    /\ accPc = "new"
    /\ extPc = "idle"
    /\ extCtx = "caller"
    /\ extRet = "none"
    /\ nevents = 0

\* wsConn.Close() was called
sockClosed == accPc = "end"

Init == InitWith(WriteChanCap)

lifecycleVars == <<writeChanCapacity, state, disconnects, wscCtx>>
readerVars == <<readers, rdPc, cur, pending, invoked, outcome, nread, notifs, rdLeft, readErr>>
extVars == <<extPc, extCtx, extRet, nevents>>

(***************************************************************************)
(* WebsocketManager.WebsocketHandler                                        *)
(***************************************************************************)
\* conn.Start(r.Context()) up to the point where writeRoutine runs
Start ==
    /\ accPc = "new"
    /\ IF RunStateStartOK
       THEN /\ state' = "Running"
            /\ chanMade' = TRUE
            /\ writeChan' = <<>>
            /\ readers' = readers + 1
            /\ rdPc' = "loop"
            /\ writers' = writers + 1
            /\ wrPc' = "loop"
            /\ accPc' = "serving"
       ELSE /\ accPc' = "close"
            /\ UNCHANGED <<state, chanMade, writeChan, readers, rdPc, writers, wrPc>>
    /\ UNCHANGED <<writeChanCapacity, readRoutineQuit, pongs, disconnects, wscCtx,
                   ctxDone, cur, pending, invoked, outcome, nread, readErr, notifs, rdLeft, wire, extVars>>

\* writeRoutine returned, so Start returns nil, and conn.Stop() is called
StartReturn ==
    /\ accPc = "serving"
    /\ wrPc = "done"
    /\ Stop
    /\ accPc' = "close"
    /\ UNCHANGED <<writeChanCapacity, chanMade, writeChan, readRoutineQuit, pongs, ctxDone,
                   readerVars, writers, wrPc, wire, extVars>>

\* the deferred wsConn.Close()
AcceptorClose ==
    /\ accPc = "close"
    /\ accPc' = "end"
    /\ UNCHANGED <<lifecycleVars, chanMade, writeChan, readRoutineQuit, pongs,
                   ctxDone, readerVars, writers, wrPc, wire, extVars>>

\* the context of the HTTP request is cancelled
CancelCtx ==
    /\ ~ctxDone
    /\ ctxDone' = TRUE
    /\ UNCHANGED <<lifecycleVars, chanMade, writeChan, readRoutineQuit, pongs,
                   readerVars, writers, wrPc, wire, accPc,
                   extVars>>

(***************************************************************************)
(* readRoutine                                                              *)
(***************************************************************************)
\* the top of the loop: return if ctx is done, else set the read deadline
\* and block in NextReader.  The value is the position and the deadline.
LoopTop ==
    IF ctxDone THEN [pc |-> "done", left |-> 0]
               ELSE [pc |-> "read", left |-> ReadWait]

\* a readRoutine goroutine that was just started reaches the loop
ReadLoop ==
    /\ rdPc = "loop"
    /\ rdPc' = LoopTop.pc
    /\ readers' = IF LoopTop.pc = "done" THEN readers - 1 ELSE readers
    /\ rdLeft' = LoopTop.left
    /\ UNCHANGED <<lifecycleVars, chanMade, writeChan, readRoutineQuit, pongs,
                   ctxDone, cur, pending, invoked, outcome, nread, readErr, notifs, writers, wrPc, wire, accPc,
                   extVars>>

\* NextReader returns the data frame f; the loop body runs up to its send,
\* the handler behaving as o if it is invoked
ReadFrame(f, o) ==
    /\ rdPc = "read"
    /\ ~sockClosed
    /\ nread + nevents < MaxInputs
    /\ LET n == nread + 1
           d == Dispatch(f, n, o)
       IN /\ nread' = n
          /\ cur' = IF d.act = "skip" THEN NoFrame ELSE f
          /\ invoked' = d.invoked
          /\ outcome' = IF d.invoked THEN o ELSE "none"
          /\ notifs' = IF f.kind = "request" /\ f.id = NilID
                       THEN notifs \cup {n} ELSE notifs
          /\ pending' = d.resp
          /\ rdPc' = CASE d.act = "send" -> "send"
                       [] d.act = "skip" -> LoopTop.pc
                       [] d.act = "panic" -> "recover"
          /\ readers' = IF d.act = "panic" \/ (d.act = "skip" /\ LoopTop.pc = "done")
                        THEN readers - 1 ELSE readers
          /\ rdLeft' = IF d.act = "skip" THEN LoopTop.left ELSE 0
    /\ UNCHANGED <<lifecycleVars, chanMade, writeChan, readRoutineQuit, pongs,
                   ctxDone, readErr, writers, wrPc, wire, accPc, extVars>>

NextReaderFrame == \E f \in Frames, o \in Outcomes : ReadFrame(f, o)

\* NextReaderError without the call of wsc.Stop()
NextReaderErrorNoStop ==
    /\ rdPc = "read"
    /\ rdPc' = "quit"
    /\ UNCHANGED readers
    /\ rdLeft' = 0
    /\ readErr' = "error"
    /\ UNCHANGED <<lifecycleVars, chanMade, writeChan, readRoutineQuit, pongs,
                   ctxDone, cur, pending, invoked, outcome, nread, notifs,
                   writers, wrPc, wire, accPc, extVars>>

\* NextReader returns an error (the peer closed, the network failed, the
\* socket was closed): Stop is called
NextReaderError ==
    /\ rdPc = "read"
    /\ Stop
    /\ rdPc' = "quit"
    /\ UNCHANGED readers
    /\ rdLeft' = 0
    /\ readErr' = "error"
    /\ UNCHANGED <<writeChanCapacity, chanMade, writeChan, readRoutineQuit, pongs,
                   ctxDone, cur, pending, invoked, outcome, nread, notifs, writers, wrPc, wire,
                   accPc, extVars>>

\* ReadTimeout without the call of wsc.Stop()
ReadTimeoutNoStop ==
    /\ rdPc = "read"
    /\ rdLeft = 0
    /\ rdPc' = "quit"
    /\ UNCHANGED readers
    /\ readErr' = "timeout"
    /\ UNCHANGED <<lifecycleVars, chanMade, writeChan, readRoutineQuit, pongs,
                   ctxDone, cur, pending, invoked, outcome, nread, notifs, rdLeft, writers, wrPc,
                   wire, accPc, extVars>>

\* NextReader returns a timeout error: the read deadline passed
ReadTimeout ==
    /\ rdPc = "read"
    /\ rdLeft = 0
    /\ Stop
    /\ rdPc' = "quit"
    /\ UNCHANGED readers
    /\ readErr' = "timeout"
    /\ UNCHANGED <<writeChanCapacity, chanMade, writeChan, readRoutineQuit, pongs,
                   ctxDone, cur, pending, invoked, outcome, nread, notifs, rdLeft, writers, wrPc,
                   wire, accPc, extVars>>

\* CloseQuit followed by go wsc.readRoutine(ctx)
CloseQuitRestarts ==
    /\ rdPc = "quit"
    /\ readRoutineQuit' = TRUE
    /\ rdPc' = "loop"
    /\ UNCHANGED readers
    /\ UNCHANGED <<lifecycleVars, chanMade, writeChan, pongs,
                   ctxDone, cur, pending, invoked, outcome, nread, readErr,
                   notifs, rdLeft, writers, wrPc, wire, accPc, extVars>>

\* close(wsc.readRoutineQuit) and return; closing a closed channel panics,
\* and the deferred function recovers
CloseQuit ==
    /\ rdPc = "quit"
    /\ IF readRoutineQuit
       THEN /\ pending' = RPCInternalError(0, PanicID)
            /\ rdPc' = "recover"
            /\ UNCHANGED readRoutineQuit
       ELSE /\ readRoutineQuit' = TRUE
            /\ rdPc' = "done"
            /\ UNCHANGED pending
    /\ readers' = readers - 1
    /\ UNCHANGED <<lifecycleVars, chanMade, writeChan, pongs,
                   ctxDone, cur, invoked, outcome, nread, readErr, notifs, rdLeft, writers, wrPc, wire,
                   accPc, extVars>>

\* wsc.WriteRPCResponse(writeCtx, resp) in the loop body, then continue
SendPending ==
    /\ rdPc = "send"
    /\ \E out \in WriteRPCResponse("background", pending) : writeChan' = out.ch
    /\ rdPc' = LoopTop.pc
    /\ readers' = IF LoopTop.pc = "done" THEN readers - 1 ELSE readers
    /\ rdLeft' = LoopTop.left
    /\ cur' = NoFrame
    /\ pending' = NoResp
    /\ invoked' = FALSE
    /\ outcome' = "none"
    /\ UNCHANGED <<lifecycleVars, chanMade, readRoutineQuit, pongs,
                   ctxDone, nread, readErr, notifs, writers, wrPc, wire, accPc, extVars>>

\* the deferred function without go wsc.readRoutine(ctx)
RecoverSendNoRestart ==
    /\ rdPc = "recover"
    /\ \E out \in WriteRPCResponse("background", pending) : writeChan' = out.ch
    /\ rdPc' = "done"
    /\ UNCHANGED readers
    /\ cur' = NoFrame
    /\ pending' = NoResp
    /\ invoked' = FALSE
    /\ outcome' = "none"
    /\ UNCHANGED <<lifecycleVars, chanMade, readRoutineQuit, pongs,
                   ctxDone, nread, readErr, notifs, rdLeft, writers, wrPc, wire, accPc,
                   extVars>>

\* the deferred function with two go statements
RecoverSendSpawnsTwo ==
    /\ rdPc = "recover"
    /\ \E out \in WriteRPCResponse("background", pending) : writeChan' = out.ch
    /\ rdPc' = "loop"
    /\ readers' = readers + 2
    /\ cur' = NoFrame
    /\ pending' = NoResp
    /\ invoked' = FALSE
    /\ outcome' = "none"
    /\ UNCHANGED <<lifecycleVars, chanMade, readRoutineQuit, pongs,
                   ctxDone, nread, readErr, notifs, rdLeft, writers, wrPc, wire,
                   accPc, extVars>>

\* the deferred function after a panic: send the response, then
\* go wsc.readRoutine(ctx)
RecoverSend ==
    /\ rdPc = "recover"
    /\ \E out \in WriteRPCResponse("background", pending) : writeChan' = out.ch
    /\ rdPc' = "loop"
    /\ readers' = readers + 1
    /\ cur' = NoFrame
    /\ pending' = NoResp
    /\ invoked' = FALSE
    /\ outcome' = "none"
    /\ UNCHANGED <<lifecycleVars, chanMade, readRoutineQuit, pongs,
                   ctxDone, nread, readErr, notifs, rdLeft, writers, wrPc, wire, accPc, extVars>>

\* a ping control frame arrives inside NextReader: the ping handler
PingArrives ==
    /\ rdPc = "read"
    /\ ~sockClosed
    /\ pongs' = IF pongs < PongsCap THEN pongs + 1 ELSE pongs
    /\ UNCHANGED <<lifecycleVars, chanMade, writeChan, readRoutineQuit,
                   ctxDone, readerVars, writers, wrPc, wire, accPc, extVars>>

\* a pong control frame arrives inside NextReader: the pong handler
PongArrives ==
    /\ rdPc = "read"
    /\ ~sockClosed
    /\ rdLeft' = ReadWait
    /\ UNCHANGED <<lifecycleVars, chanMade, writeChan, readRoutineQuit, pongs,
                   ctxDone, readers, rdPc, cur, pending, invoked, outcome, nread, readErr,
                   notifs, writers, wrPc, wire, accPc, extVars>>

\* time passes while NextReader blocks
Tick ==
    /\ rdPc = "read"
    /\ rdLeft > 0
    /\ rdLeft' = rdLeft - 1
    /\ UNCHANGED <<lifecycleVars, chanMade, writeChan, readRoutineQuit, pongs,
                   ctxDone, readers, rdPc, cur, pending, invoked, outcome, nread, readErr,
                   notifs, writers, wrPc, wire, accPc, extVars>>

(***************************************************************************)
(* writeRoutine: one action for each case of its select                     *)
(***************************************************************************)
WriteCtxDone ==
    /\ wrPc = "loop"
    /\ ctxDone
    /\ wrPc' = "done"
    /\ writers' = writers - 1
    /\ UNCHANGED <<lifecycleVars, chanMade, writeChan, readRoutineQuit, pongs,
                   ctxDone, readerVars, wire, accPc,
                   extVars>>

WriteReaderQuit ==
    /\ wrPc = "loop"
    /\ readRoutineQuit
    /\ wrPc' = "done"
    /\ writers' = writers - 1
    /\ UNCHANGED <<lifecycleVars, chanMade, writeChan, readRoutineQuit, pongs,
                   ctxDone, readerVars, wire, accPc,
                   extVars>>

\* the pongs case with a failed write ending the loop
WritePongFailStops(ok) ==
    /\ wrPc = "loop"
    /\ pongs > 0
    /\ pongs' = pongs - 1
    /\ wire' = IF ok THEN LogKeepAlive(wire, PongFrame) ELSE wire
    /\ wrPc' = IF ok THEN wrPc ELSE "done"
    /\ writers' = IF ok THEN writers ELSE writers - 1
    /\ UNCHANGED <<lifecycleVars, chanMade, writeChan, readRoutineQuit,
                   ctxDone, readerVars, accPc, extVars>>

\* m := <-pongs, the write of the pong frame succeeding (ok) or failing: a
\* failed write is logged only
WritePongResult(ok) ==
    /\ wrPc = "loop"
    /\ pongs > 0
    /\ pongs' = pongs - 1
    /\ wire' = IF ok THEN LogKeepAlive(wire, PongFrame) ELSE wire
    /\ UNCHANGED <<lifecycleVars, chanMade, writeChan, readRoutineQuit,
                   ctxDone, readerVars, writers, wrPc, accPc, extVars>>

WritePong == \E ok \in BOOLEAN : WritePongResult(ok)

\* <-pingTicker.C, the write of the ping frame succeeding or failing: a
\* failed write ends the loop
WritePingResult(ok) ==
    /\ wrPc = "loop"
    /\ IF ok
       THEN /\ wire' = LogKeepAlive(wire, PingFrame)
            /\ UNCHANGED <<writers, wrPc>>
       ELSE /\ wrPc' = "done"
            /\ writers' = writers - 1
            /\ UNCHANGED wire
    /\ UNCHANGED <<lifecycleVars, chanMade, writeChan, readRoutineQuit, pongs,
                   ctxDone, readerVars, accPc, extVars>>

WritePing == \E ok \in BOOLEAN : WritePingResult(ok)

\* what happens to a response taken from the write channel
WriteResults == {"marshalerr", "ok", "writeerr"}

\* the writeChan case writing the response at the head of the channel
\* without receiving it
WriteResponseKeepsHead(res) ==
    /\ wrPc = "loop"
    /\ Len(writeChan) > 0
    /\ UNCHANGED writeChan
    /\ CASE res = "marshalerr" -> UNCHANGED <<wire, writers, wrPc>>
         [] res = "ok" -> /\ wire' = Append(wire, Head(writeChan).seq)
                          /\ UNCHANGED <<writers, wrPc>>
         [] res = "writeerr" -> /\ wrPc' = "done"
                                /\ writers' = writers - 1
                                /\ UNCHANGED wire
    /\ UNCHANGED <<lifecycleVars, chanMade, readRoutineQuit, pongs,
                   ctxDone, readerVars, accPc, extVars>>

\* msg := <-wsc.writeChan: a response that does not marshal is dropped, a
\* failed write ends the loop
WriteResponseResult(res) ==
    /\ wrPc = "loop"
    /\ Len(writeChan) > 0
    /\ writeChan' = Tail(writeChan)
    /\ CASE res = "marshalerr" -> UNCHANGED <<wire, writers, wrPc>>
         [] res = "ok" -> /\ wire' = Append(wire, Head(writeChan).seq)
                          /\ UNCHANGED <<writers, wrPc>>
         [] res = "writeerr" -> /\ wrPc' = "done"
                                /\ writers' = writers - 1
                                /\ UNCHANGED wire
    /\ UNCHANGED <<lifecycleVars, chanMade, readRoutineQuit, pongs,
                   ctxDone, readerVars, accPc, extVars>>

WriteResponse == \E res \in WriteResults : WriteResponseResult(res)

(***************************************************************************)
(* The external goroutine: a handler's subscription or any other holder of  *)
(* the WSRPCConnection.                                                     *)
(***************************************************************************)
\* wsc.Stop()
ExtStop ==
    /\ Stop
    /\ UNCHANGED <<writeChanCapacity, chanMade, writeChan, readRoutineQuit, pongs,
                   ctxDone, readerVars, writers, wrPc, wire, accPc, extVars>>

\* Start that does not consult RunState: it makes a new write channel and
\* runs again
ExtStartIgnoresRunState ==
    /\ extPc = "idle"
    /\ accPc # "new"
    /\ state' = "Running"
    /\ chanMade' = TRUE
    /\ writeChan' = <<>>
    /\ extRet' = "started"
    /\ extPc' = "ret"
    /\ UNCHANGED <<writeChanCapacity, disconnects, wscCtx, readRoutineQuit, pongs,
                   ctxDone, readerVars, writers, wrPc, wire, accPc, extCtx, nevents>>

\* wsc.Start(ctx) called once more.  Nobody holds the connection before the
\* acceptor has called Start, so RunState.Start fails here and Start
\* returns its error at once.
ExtStart ==
    /\ extPc = "idle"
    /\ accPc # "new"
    /\ ~RunStateStartOK
    /\ extRet' = "startfail"
    /\ extPc' = "ret"
    /\ UNCHANGED <<lifecycleVars, chanMade, writeChan, readRoutineQuit, pongs,
                   ctxDone, readerVars, writers, wrPc, wire, accPc, extCtx, nevents>>

\* the goroutine enters TryWriteRPCResponse (op "try") or WriteRPCResponse
\* (op "write") with context c; c = "conn" is the value of wsc.Context().
\* A select evaluates its channel operands once, on entry: a blocking send
\* entered before Start stays on the nil channel.
ExtCall ==
    /\ extPc = "idle"
    /\ nread + nevents < MaxInputs
    /\ \E op \in {"try", "write"}, c \in ExtContexts :
         /\ extPc' = IF op = "write" /\ ~chanMade THEN "writenil" ELSE op
         /\ extCtx' = c
         /\ wscCtx' = IF c = "conn" THEN ContextValue ELSE wscCtx
    /\ nevents' = nevents + 1
    /\ extRet' = "none"
    /\ UNCHANGED <<writeChanCapacity, state, disconnects, chanMade, writeChan,
                   readRoutineQuit, pongs, ctxDone, readerVars, writers, wrPc, wire,
                   accPc>>

\* the select of TryWriteRPCResponse
ExtTry ==
    /\ extPc = "try"
    /\ \E out \in TryWriteRPCResponse(extCtx, EventResp(nevents)) :
         /\ writeChan' = out.ch
         /\ extRet' = out.ret
    /\ extPc' = "ret"
    /\ UNCHANGED <<lifecycleVars, chanMade, readRoutineQuit, pongs,
                   ctxDone, readerVars, writers, wrPc, wire, accPc, extCtx, nevents>>

\* the select of WriteRPCResponse
ExtWrite ==
    /\ extPc = "write"
    /\ \E out \in WriteRPCResponse(extCtx, EventResp(nevents)) :
         /\ writeChan' = out.ch
         /\ extRet' = out.ret
    /\ extPc' = "ret"
    /\ UNCHANGED <<lifecycleVars, chanMade, readRoutineQuit, pongs,
                   ctxDone, readerVars, writers, wrPc, wire, accPc, extCtx, nevents>>

\* the select of WriteRPCResponse on the nil channel: only ctx.Done() can
\* become ready
ExtWriteNil ==
    /\ extPc = "writenil"
    /\ CtxIsDone(extCtx)
    /\ extRet' = "cancelled"
    /\ extPc' = "ret"
    /\ UNCHANGED <<lifecycleVars, chanMade, writeChan, readRoutineQuit, pongs,
                   ctxDone, readerVars, writers, wrPc, wire, accPc, extCtx, nevents>>

\* the goroutine goes on after the call
ExtReturn ==
    /\ extPc = "ret"
    /\ extPc' = "idle"
    /\ extCtx' = "caller"
    /\ extRet' = "none"
    /\ UNCHANGED <<lifecycleVars, chanMade, writeChan, readRoutineQuit, pongs,
                   ctxDone, readerVars, writers, wrPc, wire, accPc, nevents>>

Next ==
    \/ Start
    \/ StartReturn
    \/ AcceptorClose
    \/ CancelCtx
    \/ ReadLoop
    \/ NextReaderFrame
    \/ NextReaderError
    \/ CloseQuit
    \/ SendPending
    \/ RecoverSend
    \/ PingArrives
    \/ WriteCtxDone
    \/ WriteReaderQuit
    \/ WritePong
    \/ WritePing
    \/ WriteResponse
    \/ ExtStop
    \/ ExtCall
    \/ ExtTry
    \/ ExtWrite
    \/ ExtWriteNil
    \/ ExtReturn

\* Next with the passing of time: the read deadline can pass while
\* NextReader blocks, and pong frames push it back.  In Next, a read that
\* times out is one of the errors of NextReaderError.
NextTimed ==
    \/ Next
    \/ Tick
    \/ PongArrives
    \/ ReadTimeout

\* Next with further calls of Start
NextRestart ==
    \/ Next
    \/ ExtStart

\* the connection with the write channel capacity WriteChanCap
Spec == Init /\ [][Next]_vars

\* the connection configured with WriteChanCapacity(MinChanCap)
SpecTight == InitWith(MinChanCap) /\ [][Next]_vars

\* the connection configured with WriteChanCapacity(MinChanCap), with time
SpecTimed == InitWith(MinChanCap) /\ [][NextTimed]_vars

\* the connection configured with WriteChanCapacity(MinChanCap), on which
\* Start is called again
SpecRestart == InitWith(MinChanCap) /\ [][NextRestart]_vars

\* SpecTimed with the scheduling the runtime gives: a goroutine that can
\* take its next sequential step takes it, and a select whose case stays
\* ready takes that case in the end (the choice among ready cases is random)
SpecTimedFair ==
    /\ SpecTimed
    /\ WF_vars(CloseQuit)
    /\ WF_vars(WriteReaderQuit)
    /\ WF_vars(WriteCtxDone)
    /\ WF_vars(StartReturn)

\* Spec with the scheduling the runtime gives: in the select of
\* writeRoutine a case that stays ready (a waiting response, the closed
\* readRoutineQuit, the cancelled context) is taken in the end, whatever
\* ticks and pongs are ready too, and a goroutine that can take its next
\* sequential step takes it.  What the peer, the caller of Start and the
\* external goroutine do is left open.
SpecFair ==
    /\ Spec
    /\ WF_vars(WriteResponse)
    /\ WF_vars(WriteReaderQuit)
    /\ WF_vars(WriteCtxDone)
    /\ WF_vars(ReadLoop)
    /\ WF_vars(SendPending)
    /\ WF_vars(RecoverSend)
    /\ WF_vars(CloseQuit)
    /\ WF_vars(StartReturn)

(***************************************************************************)
(* Properties                                                               *)
(***************************************************************************)
\* readRoutine is sending a response
Sending == rdPc \in {"send", "recover"}

\* the frame numbers of the responses of readRoutine, from the oldest on the
\* wire to the one being sent
AnswerSeqs ==
    Answers(wire)
    \o Answers([i \in 1..Len(writeChan) |-> writeChan[i].seq])
    \o (IF Sending /\ pending.seq > 0 THEN <<pending.seq>> ELSE <<>>)

\* C1: a request without an id (a notification) is never answered: no
\* response for it is being sent, is in the write channel or is on the wire,
\* and the number of responses of readRoutine on the wire never exceeds the
\* number of frames read that were not notifications.
C1_NotificationsUnanswered ==
    /\ \A i \in 1..Len(AnswerSeqs) : AnswerSeqs[i] \notin notifs
    /\ Len(AnswerSeqs) <= nread - Cardinality(notifs)
    /\ Len(Answers(wire)) <= nread - Cardinality(notifs)

\* a notification was read and skipped, and the request after it is answered
C1_Witness == notifs = {1} /\ wire = <<2>> /\ rdPc = "read"

\* C2: the responses of readRoutine reach the wire in the order in which
\* their requests were read: over the wire, then the write channel from its
\* head, then the response being sent, the frame numbers strictly increase,
\* whatever keep-alive frames and events lie between them.
C2_ResponseOrder ==
    \A i, j \in 1..Len(AnswerSeqs) : i < j => AnswerSeqs[i] < AnswerSeqs[j]

\* the response of a recovered panic and the response to the request read
\* after the restart are queued in that order
C2_Witness ==
    /\ Len(writeChan) = 2
    /\ writeChan[1] = RPCInternalError(1, PanicID)
    /\ writeChan[2].seq = 2

\* C3: once the context given to Start is cancelled or the connection is
\* stopped, and the write loop has terminated, readRoutine is not blocked in
\* an enqueue.
C3_EnqueueGovernedByCancellation ==
    (Sending /\ wrPc = "done" /\ (ctxDone \/ state = "Stopped"))
        => WriteRPCResponse("background", pending) # {}

\* C4: a panic of the handler leads to the deferred function, which holds
\* the InternalError response with the id -1; when it has sent, exactly that
\* response was appended to the write channel, a new readRoutine is started,
\* and the lifecycle state and readRoutineQuit are as before; the started
\* readRoutine goes on to read unless the context is cancelled.
C4_PanicRecovered ==
    [][/\ (rdPc = "read" /\ outcome' = "panic")
           => (rdPc' = "recover" /\ invoked')
       /\ rdPc' = "recover"
           => (pending'.id = -1 /\ pending'.code = -32603 /\ pending'.seq = nread')
       /\ (rdPc = "recover" /\ rdPc' # "recover")
           => /\ writeChan' = Append(writeChan, pending)
              /\ rdPc' = "loop"
              /\ UNCHANGED <<state, readRoutineQuit, nread, readErr, disconnects>>
       /\ rdPc = "loop"
           => (rdPc' \in {"loop", "read", "done"} /\ (rdPc' = "done" => ctxDone))
      ]_vars

\* the handler panicked on the first request and the second request was
\* answered on the running connection
C4_Witness ==
    /\ writeChan = <<RPCInternalError(1, PanicID), NewRPCSuccessResponse(2, ReqId)>>
    /\ state = "Running"
    /\ ~readRoutineQuit
    /\ rdPc = "read"

\* C5: the disconnect callback has run once when the connection is stopped
\* and not at all before, and no step of a stopped connection (Stop called
\* again by readRoutine, by the acceptor or by anyone else) changes the
\* lifecycle state or calls it again.
C5_DisconnectOnce ==
    [][/\ disconnects' <= 1
       /\ (disconnects' = 1) <=> (state' = "Stopped")
       /\ state = "Stopped" => UNCHANGED <<state, disconnects>>
      ]_vars

\* readRoutine called Stop on a read error and the acceptor called Stop after
\* Start returned
C5_Witness ==
    /\ rdPc = "done"
    /\ readRoutineQuit
    /\ accPc = "end"
    /\ disconnects = 1

\* a frame that is answered inside the loop without the handler
IsLocalFailure(f) ==
    \/ f.kind = "malformed"
    \/ f.kind = "request" /\ f.id # NilID /\ (f.method = "unknown" \/ f.params = "bad")

\* the response to it, as the n-th frame
LocalError(f, n) ==
    IF f.kind = "malformed" THEN Resp(n, NilID, -32700)
    ELSE IF f.method = "unknown" THEN Resp(n, f.id, -32601)
    ELSE Resp(n, f.id, -32602)

\* C6: a frame that does not decode, names an unknown method or has
\* parameters that do not bind makes readRoutine send the matching error
\* response without invoking the handler and without touching the lifecycle
\* state, readRoutineQuit or the contexts; when the send is done exactly that
\* response was appended and readRoutine reads on (unless the context given
\* to Start is cancelled).
C6_LocalFailures ==
    [][/\ (rdPc' = "send" /\ IsLocalFailure(cur'))
           => /\ pending' = LocalError(cur', nread')
              /\ ~invoked'
       /\ (rdPc = "read" /\ rdPc' = "send" /\ IsLocalFailure(cur'))
           => UNCHANGED <<state, readRoutineQuit, wscCtx, ctxDone,
                          disconnects, writeChan>>
       /\ (rdPc = "send" /\ IsLocalFailure(cur) /\ rdPc' # "send")
           => /\ writeChan' = Append(writeChan, LocalError(cur, nread))
              /\ rdPc' \in {"read", "done"}
              /\ rdPc' = "done" => ctxDone
              /\ UNCHANGED <<state, readRoutineQuit, wscCtx, ctxDone, disconnects>>
      ]_vars

\* a malformed frame was answered with ParseError and the request after it
\* with its result
C6_Witness ==
    /\ writeChan = <<RPCParseError(1), NewRPCSuccessResponse(2, ReqId)>>
    /\ state = "Running"
    /\ ~readRoutineQuit
    /\ rdPc = "read"

\* a request with an id that names a method absent from funcMap
IsUnknownMethodRequest(f) ==
    f.kind = "request" /\ f.id # NilID /\ f.method = "unknown"

\* C7: a request with an id that names a method absent from funcMap makes
\* readRoutine send the error -32601 with the id of the request, the handler
\* not invoked; every response with the code -32601 in the write channel
\* carries the id of a request.
C7_MethodNotFound ==
    /\ (rdPc = "send" /\ IsUnknownMethodRequest(cur))
        => /\ pending = [seq |-> nread, id |-> cur.id, code |-> -32601]
           /\ ~invoked
    /\ \A i \in 1..Len(writeChan) :
         writeChan[i].code = -32601 => writeChan[i].id \in ReqIds

\* the response to a request for an unknown method is in the write channel
C7_Witness ==
    /\ Len(writeChan) >= 1
    /\ writeChan[1] = [seq |-> 1, id |-> ReqId, code |-> -32601]

\* C8: TryWriteRPCResponse never blocks, whether the write channel is nil
\* (before Start), has room or is full and whether the connection is stopped
\* or not; when it returns true exactly the response was appended to the
\* write channel, when it returns false the channel is as before, and on a
\* nil or full channel it returns false.
C8_TryNeverBlocks ==
    [][/\ extPc = "try" => TryWriteRPCResponse(extCtx, EventResp(nevents)) # {}
       /\ (extPc = "try" /\ extPc' = "ret")
           => /\ extRet' \in {"true", "false"}
              /\ extRet' = "true"
                  => writeChan' = Append(writeChan, EventResp(nevents))
              /\ extRet' = "false" => writeChan' = writeChan
              /\ (~chanMade \/ Len(writeChan) >= writeChanCapacity)
                  => extRet' = "false"
      ]_vars

\* on the running connection, with the context live, it returned false from
\* the full write channel
C8_Witness ==
    /\ extPc = "ret"
    /\ extRet = "false"
    /\ state = "Running"
    /\ ~CtxIsDone(extCtx)
    /\ chanMade
    /\ Len(writeChan) = writeChanCapacity
    /\ writeChan[1].seq > 0

\* C9: TryWriteRPCResponse called with a context that is already done
\* returns false and appends nothing, even when the write channel has room.
C9_TryFailsWhenCancelled ==
    [][(extPc = "try" /\ extPc' = "ret" /\ CtxIsDone(extCtx))
           => (extRet' = "false" /\ writeChan' = writeChan)
      ]_vars

\* C10: WriteRPCResponse stays blocked while the write channel is nil or full
\* and its context is not done; it returns nil only by appending the response
\* to a channel that had room, and returns the context's error only when the
\* context is done, the channel as before.
C10_WriteBlocks ==
    [][/\ (extPc = "write" /\ WriteRPCResponse(extCtx, EventResp(nevents)) = {})
           => (extPc' = "write" /\ UNCHANGED <<extRet, extCtx, nevents>>)
       /\ (extPc = "write"
            /\ (~chanMade \/ Len(writeChan) >= writeChanCapacity)
            /\ ~CtxIsDone(extCtx))
           => extPc' = "write"
       /\ (extPc = "writenil" /\ ~CtxIsDone(extCtx)) => extPc' = "writenil"
       /\ (extPc \in {"write", "writenil"} /\ extPc' = "ret")
           => \/ /\ extRet' = "ok"
                 /\ extPc = "write"
                 /\ chanMade
                 /\ Len(writeChan) < writeChanCapacity
                 /\ writeChan' = Append(writeChan, EventResp(nevents))
              \/ /\ extRet' = "cancelled"
                 /\ CtxIsDone(extCtx)
                 /\ writeChan' = writeChan
      ]_vars

\* the caller is blocked on the full write channel of the running
\* connection, its context live
C10_Witness ==
    /\ extPc = "write"
    /\ state = "Running"
    /\ ~CtxIsDone(extCtx)
    /\ chanMade
    /\ Len(writeChan) = writeChanCapacity
    /\ wrPc = "loop"

\* C11: a read fails with a timeout only when the read deadline has passed
\* with no data or pong frame; readRoutine then calls Stop (the state is
\* Stopped and the disconnect callback has run once) and goes on to close
\* readRoutineQuit; from then on, eventually, readRoutineQuit is closed,
\* readRoutine and writeRoutine have returned and Start has returned.
C11_ReadTimeoutCloses ==
    /\ [][(readErr = "none" /\ readErr' = "timeout")
             => /\ rdPc = "read"
                /\ rdLeft = 0
                /\ rdPc' = "quit"
                /\ state' = "Stopped"
                /\ disconnects' = 1]_vars
    /\ (readErr = "timeout")
         ~> (/\ readRoutineQuit
             /\ rdPc = "done"
             /\ state = "Stopped"
             /\ wrPc = "done"
             /\ accPc \in {"close", "end"})

\* the read timed out on the running connection, nothing else having stopped
\* it, and the connection was closed
C11_Witness ==
    /\ readErr = "timeout"
    /\ ~ctxDone
    /\ nread = 0
    /\ nevents = 0
    /\ readRoutineQuit
    /\ rdPc = "done"
    /\ wrPc = "done"
    /\ accPc = "end"
    /\ disconnects = 1

\* C12: the lifecycle state becomes Running only from NotStarted, by the
\* acceptor's call of Start, and never again: a stopped connection stays
\* stopped and a running one never goes back to NotStarted.  A call of Start
\* in another state fails and changes neither the state, nor the write
\* channel (which, once made, only gains a response at its tail or loses
\* its head), nor the positions of readRoutine and writeRoutine.
C12_StartOnce ==
    [][/\ (state' = "Running" /\ state # "Running")
           => (state = "NotStarted" /\ accPc = "new" /\ ~chanMade)
       /\ state = "Stopped" => state' = "Stopped"
       /\ state = "Running" => state' \in {"Running", "Stopped"}
       /\ (extPc = "idle" /\ extPc' = "ret")
           => /\ extRet' = "startfail"
              /\ state # "NotStarted"
              /\ UNCHANGED <<state, chanMade, writeChan, readers, rdPc, writers, wrPc,
                             readRoutineQuit, disconnects, wscCtx>>
       /\ chanMade
           => /\ chanMade'
              /\ \/ writeChan' = writeChan
                 \/ writeChan # <<>> /\ writeChan' = Tail(writeChan)
                 \/ writeChan' # <<>> /\ writeChan = SubSeq(writeChan', 1, Len(writeChan') - 1)
      ]_vars

\* Start was called on the stopped connection and failed, the response in
\* the write channel still there
C12_Witness ==
    /\ extPc = "ret"
    /\ extRet = "startfail"
    /\ state = "Stopped"
    /\ writeChan # <<>>

\* C13: the response to a request whose handler returned carries the id of
\* the request and the code that the outcome maps to: success for no error,
\* the error's own code for an *rpctypes.RPCError, -32600 for an error that
\* is or wraps one of the coretypes sentinels, -32603 for any other error.
C13_HandlerOutcomeMapping ==
    (rdPc = "send" /\ invoked)
        => /\ pending.id = cur.id
           /\ pending.seq = nread
           /\ pending.code =
                CASE outcome = "ok" -> 0
                  [] outcome = "rpcerr" -> CodeCustom
                  [] outcome \in {"sentinel", "wrapped"} -> -32600
                  [] OTHER -> -32603

\* C14: on a stopped connection, the context that a call of Context() has
\* made is cancelled, whether the call came before Stop or after it.
C14_StoppedContextCancelled ==
    (state = "Stopped" /\ wscCtx # "nil") => wscCtx = "cancelled"

\* C15: in writeRoutine a failed pong write leaves the loop running; a
\* failed ping write ends it; a response that does not serialize is taken
\* from the write channel and nothing is written for it, the loop running
\* on; a failed response write ends the loop.  Every step that ends the loop
\* is a failed ping write, a failed response write, the ctx.Done() case or
\* the readRoutineQuit case.
C15_WriteLoopFailures ==
    [][/\ WritePongResult(FALSE) => (wrPc' = "loop" /\ wire' = wire)
       /\ WritePingResult(FALSE) => (wrPc' = "done" /\ wire' = wire)
       /\ WriteResponseResult("marshalerr")
           => (wrPc' = "loop" /\ wire' = wire /\ writeChan' = Tail(writeChan))
       /\ WriteResponseResult("writeerr") => (wrPc' = "done" /\ wire' = wire)
       /\ (wrPc = "loop" /\ wrPc' # "loop")
           => /\ wrPc' = "done"
              /\ \/ WritePingResult(FALSE)
                 \/ WriteResponseResult("writeerr")
                 \/ WriteCtxDone
                 \/ WriteReaderQuit
      ]_vars

\* the response to the first request was taken from the write channel and
\* dropped, and writeRoutine then wrote the response to the second
C15_Witness ==
    /\ nread = 2
    /\ notifs = {}
    /\ nevents = 0
    /\ rdPc = "read"
    /\ writeChan = <<>>
    /\ wire = <<2>>
    /\ wrPc = "loop"

\* C16: when NextReader returns an error, of whatever kind, readRoutine has
\* called Stop (the connection is stopped) before it closes readRoutineQuit;
\* it then closes readRoutineQuit and returns, and a readRoutine that has
\* returned is not started again.  Start returns only when writeRoutine has
\* returned.  Once readRoutineQuit is closed or the context given to Start
\* is cancelled, a running writeRoutine eventually returns.
C16_ReadErrorEndsConnection ==
    /\ [][/\ (readErr = "none" /\ readErr' # "none")
              => (rdPc = "read" /\ rdPc' = "quit" /\ state' = "Stopped"
                  /\ ~readRoutineQuit')
          /\ rdPc = "quit"
              => \/ (rdPc' = "quit" /\ UNCHANGED readRoutineQuit)
                 \/ (rdPc' = "done" /\ readRoutineQuit' /\ state = "Stopped")
          /\ rdPc = "done" => rdPc' = "done"
          /\ (accPc = "serving" /\ accPc' # "serving") => wrPc = "done"
         ]_vars
    /\ ((readRoutineQuit \/ ctxDone) /\ wrPc = "loop") ~> (wrPc = "done")

\* the peer closed the socket: readRoutine stopped the connection, closed
\* readRoutineQuit and returned, writeRoutine returned on it, Start returned
C16_Witness ==
    /\ readErr = "error"
    /\ ~ctxDone
    /\ nread = 2
    /\ readRoutineQuit
    /\ rdPc = "done"
    /\ wrPc = "done"
    /\ accPc = "close"
    /\ state = "Stopped"

\* C17: at most one goroutine is inside the loop of readRoutine and at most
\* one inside the loop of writeRoutine.  Start launches one of each; after
\* that no write loop is launched, and a readRoutine is launched only by the
\* deferred function of a readRoutine that has panicked and so has left its
\* loop.  A goroutine that reads, sends or closes readRoutineQuit is the one
\* inside the loop.
C17_OneReaderOneWriter ==
    [][/\ readers' \in {0, 1}
       /\ writers' \in {0, 1}
       /\ (accPc = "new" /\ accPc' = "serving")
           => (readers = 0 /\ writers = 0 /\ readers' = 1 /\ writers' = 1)
       /\ writers' > writers => accPc = "new"
       /\ (readers' > readers /\ accPc # "new")
           => (readers = 0 /\ rdPc = "recover" /\ rdPc' = "loop")
       /\ rdPc' \in {"loop", "read", "send", "quit"} <=> readers' = 1
       /\ wrPc' = "loop" <=> writers' = 1
      ]_vars

\* after a panic of the handler the restarted readRoutine is the one reader
C17_Witness ==
    /\ writeChan = <<RPCInternalError(1, PanicID)>>
    /\ rdPc = "read"
    /\ readers = 1
    /\ writers = 1
    /\ nread = 1

\* C18: every frame that arrives sets the read deadline to a full ReadWait
\* from now: a ping control frame, a pong control frame, and a data frame
\* (when readRoutine comes back to NextReader after it).
C18_EveryFrameResetsDeadline ==
    [][/\ PingArrives => rdLeft' = ReadWait
       /\ PongArrives => rdLeft' = ReadWait
       /\ (rdPc # "read" /\ rdPc' = "read") => rdLeft' = ReadWait
      ]_vars

\* C19: readRoutineQuit is closed once: the close is executed only while
\* the channel is open (so it never panics), whatever restarts of
\* readRoutine came before, and a closed channel stays closed; whenever it
\* is closed the connection is stopped.
C19_QuitClosedOnce ==
    [][/\ (rdPc = "quit" /\ rdPc' # "quit")
           => (~readRoutineQuit /\ readRoutineQuit' /\ rdPc' = "done")
       /\ readRoutineQuit' # readRoutineQuit => rdPc = "quit"
       /\ readRoutineQuit => readRoutineQuit'
       /\ readRoutineQuit' => state' = "Stopped"
      ]_vars

\* readRoutineQuit was closed by a readRoutine that the deferred function
\* had started after a panic
C19_Witness ==
    /\ readRoutineQuit
    /\ rdPc = "done"
    /\ nread = 1
    /\ Len(writeChan) = 1
    /\ writeChan[1] = RPCInternalError(1, PanicID)
    /\ state = "Stopped"

\* the response to frame n (n > 0), or the n-th event (n < 0), waits in the
\* write channel
Queued(n) ==
    \E i \in 1..Len(writeChan) :
        IF n > 0 THEN writeChan[i].seq = n
                 ELSE writeChan[i].seq = 0 /\ writeChan[i].id = -n

\* the response to frame n is on the wire
OnWire(n) == \E i \in 1..Len(wire) : wire[i] = n

QueueKeys == (-MaxInputs..MaxInputs) \ {0}

\* the write channel holds at most its capacity; a response appears on the
\* wire only as the head of the write channel, which is received in the
\* same step; the head leaves the channel only through the writeChan case of
\* writeRoutine; no response of readRoutine is on the wire twice
QueueSafety ==
    /\ [](Len(writeChan) <= writeChanCapacity)
    /\ [](\A i, j \in 1..Len(wire) :
            (i < j /\ IsAnswer(wire[i])) => wire[i] # wire[j])
    /\ [][/\ (wire' # wire /\ ~IsKeepAlive(wire'[Len(wire')]))
              => /\ writeChan # <<>>
                 /\ wire' = Append(wire, writeChan[1].seq)
                 /\ writeChan' = Tail(writeChan)
          /\ (writeChan # <<>> /\ writeChan' = Tail(writeChan))
              => \E res \in WriteResults : WriteResponseResult(res)
         ]_vars

\* C20 as claimed: QueueSafety, and every response of readRoutine that
\* waits in the write channel is eventually on the wire, unless writeRoutine
\* returns.
C20_EveryResponseWritten ==
    /\ QueueSafety
    /\ \A n \in 1..MaxInputs : Queued(n) ~> (OnWire(n) \/ wrPc = "done")

\* C20, amended: QueueSafety, and every response that waits in the write
\* channel is eventually received from it by writeRoutine (and then written,
\* or dropped if it does not serialize), unless writeRoutine returns.
C20_EveryResponseTaken ==
    /\ QueueSafety
    /\ \A n \in QueueKeys : Queued(n) ~> (~Queued(n) \/ wrPc = "done")

\* both responses were written, a ping between them
C20_Witness ==
    /\ wire = <<1, PingFrame, 2>>
    /\ writeChan = <<>>
    /\ wrPc = "loop"
====
